---------------------------- MODULE Spec2Model ----------------------------
(***************************************************************************)
(* The customer classification pipeline of new-customers-dashboard:        *)
(* app.py (interactive dashboard) and generate_report.py (static report).  *)
(* One run is load -> [column check] -> clean -> year -> classify ->       *)
(* bucket -> render.  Strings are sequences of one-character strings so    *)
(* that str.strip() is computed; timestamps are records y/m/d/t with t the *)
(* hour of the day (0 = midnight).                                         *)
(***************************************************************************)
EXTENDS Integers, Sequences, FiniteSets

VARIABLES
  sheet,            \* the worksheet: [header, rows], rows aligned with header
  excluded_text,    \* EXCLUDED_CUSTOMERS / sidebar text area, as lines
  entry,            \* "app" | "report": which script runs
  pandas,           \* major version of the installed pandas (none is pinned)
  now,              \* the process's local clock
  pc,               \* position of the script
  trace,            \* stages the current run has completed, in order
  error,            \* "none" or what ended the run
  df_raw,           \* pd.DataFrame(rows): [columns, data]
  df,               \* the cleaned frame: sequence of [date, cust]
  today,            \* pd.Timestamp.today().normalize() of this run
  year_opt,         \* selected year (year_opt / current_year)
  res,              \* the merged monthly table
  dist,             \* the bucket distribution
  lists_by_bucket,  \* the per-bucket customer listing (app.py only)
  written,          \* build/new_customers_report.html exists
  prev,             \* outputs of the previous run of the same process
  runs              \* number of runs started

vars == <<sheet, excluded_text, entry, pandas, now, pc, trace, error, df_raw, df,
          today, year_opt, res, dist, lists_by_bucket, written, prev, runs>>

Range(s) == {s[i] : i \in 1..Len(s)}

(* ------------------------------ bounds -------------------------------- *)
\* rows of a sheet in the aggregation specification
MaxRows == 6
\* rows of a sheet in the cleaning specification
MaxRawRows == 2
\* rows of a sheet, and runs of one process, in the rerun specification
MaxRerunRows == 2
MaxRuns == 2

(* --------------------------- configuration ---------------------------- *)
DATE_COL == <<"D">>
CUSTOMER_COL == <<"C">>

(* ------------------------------ strings ------------------------------- *)
RECURSIVE LStrip(_)
LStrip(s) == IF s # <<>> /\ Head(s) = " " THEN LStrip(Tail(s)) ELSE s

RECURSIVE RStrip(_)
RStrip(s) ==
  IF s # <<>> /\ s[Len(s)] = " " THEN RStrip(SubSeq(s, 1, Len(s) - 1)) ELSE s

\* str.strip()
Strip(s) == RStrip(LStrip(s))

\* ord() of the characters used
Ord(c) == CASE c = " " -> 32 [] c = "A" -> 65 [] c = "B" -> 66
            [] c = "C" -> 67 [] c = "D" -> 68 [] c = "X" -> 88 [] OTHER -> 63

\* Python's str <= str
RECURSIVE StrLeq(_, _)
StrLeq(a, b) ==
  IF a = <<>> THEN TRUE
  ELSE IF b = <<>> THEN FALSE
  ELSE IF Head(a) = Head(b) THEN StrLeq(Tail(a), Tail(b))
  ELSE Ord(Head(a)) < Ord(Head(b))

\* sorted(S) for a set of strings
RECURSIVE SortStrings(_)
SortStrings(S) ==
  IF S = {} THEN <<>>
  ELSE LET m == CHOOSE x \in S : \A y \in S : StrLeq(x, y)
       IN <<m>> \o SortStrings(S \ {m})

\* [s.strip() for s in text.splitlines() if s.strip()]
ExcludedList(text) ==
  LET stripped == [i \in 1..Len(text) |-> Strip(text[i])]
  IN SelectSeq(stripped, LAMBDA s : s # <<>>)

(* ----------------------------- timestamps ----------------------------- *)
NaT == [y |-> 0, m |-> 0, d |-> 0, t |-> 0]

Ts(y, m, d, t) == [y |-> y, m |-> m, d |-> d, t |-> t]

\* order of timestamps: the hours of a calendar of 12 months of 32 days
Key(ts) == ((ts.y * 12 + ts.m) * 32 + ts.d) * 24 + ts.t

\* Timestamp.normalize(): midnight of the same day
Normalize(ts) == [ts EXCEPT !.t = 0]

IsLeap(y) == (y % 4 = 0 /\ y % 100 # 0) \/ y % 400 = 0

DaysInMonth(y, m) ==
  IF m = 2 THEN (IF IsLeap(y) THEN 29 ELSE 28)
  ELSE IF m \in {4, 6, 9, 11} THEN 30 ELSE 31

\* a date cell of the sheet: '' | text that is no date | "f1/f2/yyyy" or
\* "f1/f2/yyyy hh:00" (hh = 0 stands for the text without a time part)
BlankCell == [kind |-> "blank", f1 |-> 0, f2 |-> 0, yyyy |-> 0, hh |-> 0]
JunkCell == [kind |-> "junk", f1 |-> 0, f2 |-> 0, yyyy |-> 0, hh |-> 0]
DateCell(f1, f2, yyyy, hh) ==
  [kind |-> "mdY", f1 |-> f1, f2 |-> f2, yyyy |-> yyyy, hh |-> hh]

\* the bounds of a nanosecond Timestamp, to the hour
TsMin == [y |-> 1677, m |-> 9, d |-> 21, t |-> 1]
TsMax == [y |-> 2262, m |-> 4, d |-> 11, t |-> 23]

\* a calendar date and hour that a Timestamp can hold, else NaT
MakeTs(y, m, d, t) ==
  IF /\ m \in 1..12
     /\ d \in 1..DaysInMonth(y, m)
     /\ t \in 0..23
     /\ Key(TsMin) <= Key(Ts(y, m, d, t))
     /\ Key(Ts(y, m, d, t)) <= Key(TsMax)
  THEN Ts(y, m, d, t)
  ELSE NaT

\* one cell parsed on its own with dayfirst=False: month first, but a first
\* field above 12 is read as the day (no swap when the second field is a
\* day the month does not have)
ParseOne(cell) ==
  IF cell.kind # "mdY" THEN NaT
  ELSE IF cell.f1 > 12 THEN MakeTs(cell.yyyy, cell.f2, cell.f1, cell.hh)
  ELSE MakeTs(cell.yyyy, cell.f1, cell.f2, cell.hh)

\* one cell parsed with the format inferred for its column: the field order
\* and the presence of a time part must be those of the format
ParseWith(fmt, cell) ==
  IF cell.kind # "mdY" \/ (cell.hh > 0) # fmt.time THEN NaT
  ELSE IF fmt.dayfirst THEN MakeTs(cell.yyyy, cell.f2, cell.f1, cell.hh)
  ELSE MakeTs(cell.yyyy, cell.f1, cell.f2, cell.hh)

\* pd.to_datetime(column, dayfirst=False, errors="coerce").  pandas 1 parses
\* each cell on its own.  pandas 2 infers one format from the first cell
\* that is not empty and coerces every cell that does not match it to NaT;
\* when that cell is no date no format is inferred and each cell is parsed
\* on its own.
ParseDate(col, pv) ==
  LET nonnull == {i \in 1..Len(col) : col[i].kind # "blank"}
      first == CHOOSE i \in nonnull : \A j \in nonnull : i <= j
      inferred == pv = "2" /\ nonnull # {} /\ ParseOne(col[first]) # NaT
      fmt == [dayfirst |-> col[first].f1 > 12, time |-> col[first].hh > 0]
  IN [i \in 1..Len(col) |->
        IF inferred THEN ParseWith(fmt, col[i]) ELSE ParseOne(col[i])]

(* ------------------------------ loading ------------------------------- *)
ColIndex(header, h) == CHOOSE i \in 1..Len(header) : header[i] = h

\* ws.get_all_records(): one dict per data row, keyed by the header cells
GetAllRecords(sh) ==
  [i \in 1..Len(sh.rows) |->
     [h \in Range(sh.header) |-> sh.rows[i][ColIndex(sh.header, h)]]]

\* pd.DataFrame(rows): a list of no dicts gives a frame with no columns
DataFrame(records) ==
  [columns |-> IF records = <<>> THEN {} ELSE DOMAIN records[1],
   data |-> records]

EmptyFrame == [columns |-> {}, data |-> <<>>]

(* ------------------------------ cleaning ------------------------------ *)
\* df_raw.rename(columns={c: str(c).strip() for c in df_raw.columns})
RenameStrip(raw) ==
  LET names == {Strip(c) : c \in raw.columns}
  IN [columns |-> names,
      data |-> [i \in 1..Len(raw.data) |->
                  [n \in names |->
                     raw.data[i][CHOOSE c \in raw.columns : Strip(c) = n]]]]

\* the column test of app.py, made on the frame as loaded
ColumnsMissing(frame) ==
  DATE_COL \notin frame.columns \/ CUSTOMER_COL \notin frame.columns

\* df_raw[[DATE_COL, CUSTOMER_COL]] raises KeyError on a missing label
SelectRaises(frame) ==
  DATE_COL \notin frame.columns \/ CUSTOMER_COL \notin frame.columns

\* df[DATE_COL] <= today
UpToToday(date, td) == Key(date) <= Key(td)

\* The Data Cleaning block.  get_all_records() fills empty cells with '',
\* never NaN, so dropna() removes no row of such a frame.
CleanFrame(raw, excl, td, pv) ==
  LET r == RenameStrip(raw)
      sel == [i \in 1..Len(r.data) |->
                [date |-> r.data[i][DATE_COL], cust |-> r.data[i][CUSTOMER_COL]]]
      dates == ParseDate([i \in 1..Len(sel) |-> sel[i].date], pv)
      parsed == [i \in 1..Len(sel) |->
                   [date |-> dates[i], cust |-> sel[i].cust]]
      notna == SelectSeq(parsed, LAMBDA x : x.date # NaT)
      stripped == [i \in 1..Len(notna) |->
                     [date |-> notna[i].date, cust |-> Strip(notna[i].cust)]]
      upto == SelectSeq(stripped, LAMBDA x : UpToToday(x.date, td))
  IN IF excl # <<>>
     THEN SelectSeq(upto, LAMBDA x : x.cust \notin Range(excl))
     ELSE upto

(* ---------------------------- classification -------------------------- *)
Customers(frame) == {frame[i].cust : i \in 1..Len(frame)}

\* sorted(df[DATE_COL].dt.year.unique()), as a set
AvailableYears(frame) == {frame[i].date.y : i \in 1..Len(frame)}

MinTs(S) == CHOOSE a \in S : \A b \in S : Key(a) <= Key(b)

\* df.groupby(CUSTOMER_COL)[DATE_COL].min(): over the whole cleaned frame
FirstPurchase(frame) ==
  [c \in Customers(frame) |->
     MinTs({frame[i].date : i \in {j \in 1..Len(frame) : frame[j].cust = c}})]

\* mutant: the first purchase taken among the records of year y only
NewMonthlyWithinYear(frame, y) ==
  LET fp == FirstPurchase(SelectSeq(frame, LAMBDA x : x.date.y = y))
  IN [m \in {fp[c].m : c \in DOMAIN fp} |->
        Cardinality({c \in DOMAIN fp : fp[c].m = m})]

\* mutant: the first purchases grouped by month without the year filter
NewMonthlyAnyYear(frame, y) ==
  LET fp == FirstPurchase(frame)
  IN [m \in {fp[c].m : c \in DOMAIN fp} |->
        Cardinality({c \in DOMAIN fp : fp[c].m = m})]

\* first_purchase[year == y].groupby("month").size()
NewMonthly(frame, y) ==
  LET fp == FirstPurchase(frame)
      months == {fp[c].m : c \in {k \in DOMAIN fp : fp[k].y = y}}
  IN [m \in months |->
        Cardinality({c \in DOMAIN fp : fp[c].y = y /\ fp[c].m = m})]

\* df[df[DATE_COL].dt.year == y], with date_day and month
DfYear(frame, y) ==
  LET sel == SelectSeq(frame, LAMBDA x : x.date.y = y)
  IN [i \in 1..Len(sel) |->
        [date |-> sel[i].date, cust |-> sel[i].cust,
         date_day |-> Normalize(sel[i].date), month |-> sel[i].date.m]]

\* drop_duplicates(subset=[CUSTOMER_COL, "date_day"]): the first of each is kept
RECURSIVE DropDuplicates(_)
DropDuplicates(s) ==
  IF s = <<>> THEN <<>>
  ELSE LET init == SubSeq(s, 1, Len(s) - 1)
           last == s[Len(s)]
           seen == \E i \in 1..Len(init) :
                     init[i].cust = last.cust /\ init[i].date_day = last.date_day
       IN IF seen THEN DropDuplicates(init)
          ELSE Append(DropDuplicates(init), last)

\* mutant: the rows of each month counted, neither deduplicated nor distinct
TotalMonthlyRows(frame, y) ==
  LET dy == DfYear(frame, y)
  IN [m \in {dy[i].month : i \in 1..Len(dy)} |->
        Cardinality({i \in 1..Len(dy) : dy[i].month = m})]

\* df_year_unique.groupby("month")[CUSTOMER_COL].nunique()
TotalMonthly(frame, y) ==
  LET u == DropDuplicates(DfYear(frame, y))
      months == {u[i].month : i \in 1..Len(u)}
  IN [m \in months |->
        Cardinality({u[i].cust : i \in {j \in 1..Len(u) : u[j].month = m}})]

\* mutant: twelve months whatever the year
MaxMonthWholeYear(e, y, td) == 12

\* mutant: the day of the month read in place of the month
MaxMonthByDay(e, y, td) ==
  IF e = "app" THEN (IF y = td.y THEN td.d ELSE 12) ELSE td.d

\* today.month if year_opt == today.year else 12   (app.py)
\* today.month                                     (generate_report.py)
MaxMonth(e, y, td) ==
  IF e = "app" THEN (IF y = td.y THEN td.m ELSE 12) ELSE td.m

\* a left merge followed by fillna(0)
LookupOr0(f, m) == IF m \in DOMAIN f THEN f[m] ELSE 0

\* .clip(lower=0)
ClipLower0(n) == IF n < 0 THEN 0 ELSE n

Digit(n) == CASE n = 0 -> "0" [] n = 1 -> "1" [] n = 2 -> "2" [] n = 3 -> "3"
              [] n = 4 -> "4" [] n = 5 -> "5" [] n = 6 -> "6" [] n = 7 -> "7"
              [] n = 8 -> "8" [] n = 9 -> "9"

RECURSIVE Str(_)
Str(n) == IF n < 10 THEN <<Digit(n)>> ELSE Str(n \div 10) \o <<Digit(n % 10)>>

\* f"{year}-{m:02d}"
MonthLabel(y, m) == Str(y) \o <<"-">> \o <<Digit(m \div 10), Digit(m % 10)>>

\* the Merge block
Merge(e, frame, y, td) ==
  LET total == TotalMonthly(frame, y)
      new == NewMonthly(frame, y)
  IN [m \in 1..MaxMonth(e, y, td) |->
        [month |-> m,
         total_unique_customers |-> LookupOr0(total, m),
         new_customers |-> LookupOr0(new, m),
         returning_customers |->
           ClipLower0(LookupOr0(total, m) - LookupOr0(new, m)),
         month_label |-> MonthLabel(y, m)]]

(* ------------------------------ bucketing ----------------------------- *)
\* df_year.groupby(CUSTOMER_COL).size(): every row counts
TxPerCustomer(frame, y) ==
  LET dy == DfYear(frame, y)
  IN [c \in Customers(dy) |->
        Cardinality({i \in 1..Len(dy) : dy[i].cust = c})]

\* mutant: the threshold off by one
to_bucket_above5(n) == IF n > 5 THEN <<"5", "+">> ELSE Str(n)

\* def to_bucket(n): return "5+" if n >= 5 else str(int(n))
to_bucket(n) == IF n >= 5 THEN <<"5", "+">> ELSE Str(n)

order == << <<"1">>, <<"2">>, <<"3">>, <<"4">>, <<"5", "+">> >>

\* label_map, the Persian labels transliterated
label_map(b) ==
  CASE b = <<"1">> -> "1 bar" [] b = <<"2">> -> "2 bar" [] b = <<"3">> -> "3 bar"
    [] b = <<"4">> -> "4 bar" [] b = <<"5", "+">> -> "5 bar ya bishtar"

\* order.index(x)
OrderIndex(b) == (CHOOSE i \in 1..Len(order) : order[i] = b) - 1

InBucket(tx, b) == {c \in DOMAIN tx : to_bucket(tx[c]) = b}

\* groupby(["bucket","bucket_label"]).size(), then sort_values("order"):
\* only the buckets that hold a customer
Dist(frame, y) ==
  LET tx == TxPerCustomer(frame, y)
      present == SelectSeq(order, LAMBDA b : InBucket(tx, b) # {})
  IN [i \in 1..Len(present) |->
        [bucket |-> present[i], bucket_label |-> label_map(present[i]),
         n_customers |-> Cardinality(InBucket(tx, present[i])),
         order |-> OrderIndex(present[i])]]

\* sort_values(["bucket", CUSTOMER_COL]).groupby(...)[CUSTOMER_COL].apply(list)
ListsByBucket(frame, y) ==
  LET tx == TxPerCustomer(frame, y)
      present == SelectSeq(order, LAMBDA b : InBucket(tx, b) # {})
  IN [i \in 1..Len(present) |->
        [bucket |-> present[i], bucket_label |-> label_map(present[i]),
         customers |-> SortStrings(InBucket(tx, present[i])),
         count |-> Cardinality(InBucket(tx, present[i]))]]

(* ------------------------------- inputs ------------------------------- *)
A == <<"A">>
B == <<"B">>
X == <<"X">>

\* the moments at which a run may read the clock
Clocks == {Ts(2024, 1, 31, 14), Ts(2024, 2, 15, 14), Ts(2025, 1, 10, 9)}
RerunClocks == Clocks \cup {Ts(2024, 2, 20, 8)}

\* rows <<date cell, customer cell>> under the header <<DATE_COL, CUSTOMER_COL>>
AggPool ==
  << <<DateCell(3, 5, 2023, 0), A>>,
     <<DateCell(1, 5, 2024, 0), A>>,
     <<DateCell(1, 5, 2024, 9), A>>,
     <<DateCell(2, 1, 2024, 0), A>>,
     <<DateCell(1, 20, 2024, 0), B>>,
     <<DateCell(13, 2, 2024, 0), B>> >>

\* rows with the defects the cleaning block meets
CleanPool ==
  << <<DateCell(1, 5, 2024, 0), A>>,
     <<DateCell(1, 5, 2024, 0), <<" ", "A", " ">> >>,
     <<DateCell(1, 5, 2024, 0), <<>> >>,
     <<DateCell(1, 5, 2024, 0), <<" ">> >>,
     <<DateCell(1, 5, 2024, 0), X>>,
     <<DateCell(1, 5, 2024, 0), <<" ", "X">> >>,
     <<BlankCell, A>>,
     <<JunkCell, A>>,
     <<DateCell(2, 30, 2024, 0), A>>,
     <<DateCell(1, 31, 2024, 0), B>>,
     <<DateCell(1, 31, 2024, 9), B>>,
     <<DateCell(2, 1, 2024, 0), B>>,
     <<DateCell(3, 5, 2023, 0), A>>,
     <<DateCell(13, 1, 2024, 0), A>> >>

\* headers: as configured, padded, without the date column, without the
\* customer column
Headers ==
  { <<DATE_COL, CUSTOMER_COL>>, << <<" ", "D">>, CUSTOMER_COL>>,
    <<CUSTOMER_COL>>, <<DATE_COL>> }

ExcludedTexts == { <<>>, << <<" ", "X">>, <<>> >> }

\* the row lists of at most n rows drawn from pool, one per first row and
\* multiset of the other rows: a run reads the order of the rows only in
\* inferring the date format, from the first row whose date cell is not empty
RowLists(pool, n) ==
  LET idx == UNION {[1..k -> 1..Len(pool)] : k \in 0..n}
      sorted == {f \in idx : \A i \in 2..(Len(f) - 1) : f[i] <= f[i + 1]}
  IN {[i \in 1..Len(f) |-> pool[f[i]]] : f \in sorted}

\* every row list of at most n rows drawn from pool
AllRowLists(pool, n) ==
  LET idx == UNION {[1..k -> 1..Len(pool)] : k \in 0..n}
  IN {[i \in 1..Len(f) |-> pool[f[i]]] : f \in idx}

PandasVersions == {"1", "2"}

\* the cells of a pool row laid out under a header
UnderHeader(header, row) ==
  [i \in 1..Len(header) |->
     IF Strip(header[i]) = DATE_COL THEN row[1] ELSE row[2]]

NoPrev ==
  [valid |-> FALSE, df |-> <<>>, year |-> 0, today |-> NaT,
   res |-> <<>>, dist |-> <<>>, lists |-> <<>>]

\* the state of a process before its first run
Fresh ==
  /\ pc = "load"
  /\ trace = <<>>
  /\ error = "none"
  /\ df_raw = EmptyFrame
  /\ df = <<>>
  /\ today = NaT
  /\ year_opt = 0
  /\ res = <<>>
  /\ dist = <<>>
  /\ lists_by_bucket = <<>>
  /\ written = FALSE
  /\ prev = NoPrev
  /\ runs = 1

InitAgg ==
  /\ \E rows \in RowLists(AggPool, MaxRows) :
       sheet = [header |-> <<DATE_COL, CUSTOMER_COL>>, rows |-> rows]
  /\ excluded_text = <<>>
  /\ entry \in {"app", "report"}
  /\ pandas \in PandasVersions
  /\ now \in Clocks
  /\ Fresh

InitClean ==
  /\ \E header \in Headers, rows \in AllRowLists(CleanPool, MaxRawRows) :
       sheet = [header |-> header,
                rows |-> [i \in 1..Len(rows) |-> UnderHeader(header, rows[i])]]
  /\ excluded_text \in ExcludedTexts
  /\ entry \in {"app", "report"}
  /\ pandas \in PandasVersions
  /\ now = Ts(2024, 1, 31, 14)
  /\ Fresh

InitRerun ==
  /\ \E rows \in RowLists(AggPool, MaxRerunRows) :
       sheet = [header |-> <<DATE_COL, CUSTOMER_COL>>, rows |-> rows]
  /\ excluded_text = <<>>
  /\ entry \in {"app", "report"}
  /\ pandas \in PandasVersions
  /\ now \in RerunClocks
  /\ Fresh

(* ------------------------------- actions ------------------------------ *)
Terminal == {"done", "stopped", "crashed"}

\* _connect_and_read / ws.get_all_records(); pd.DataFrame(rows)
Load ==
  /\ pc = "load"
  /\ df_raw' = DataFrame(GetAllRecords(sheet))
  /\ trace' = Append(trace, "load")
  /\ pc' = IF entry = "app" THEN "check" ELSE "clean"
  /\ UNCHANGED <<sheet, excluded_text, entry, pandas, now, error, df, today, year_opt,
                 res, dist, lists_by_bucket, written, prev, runs>>

\* app.py: the column test, st.error and st.stop
CheckColumns ==
  /\ pc = "check"
  /\ IF ColumnsMissing(df_raw)
     THEN /\ error' = "config"
          /\ pc' = "stopped"
          /\ trace' = trace
     ELSE /\ error' = error
          /\ pc' = "clean"
          /\ trace' = Append(trace, "check")
  /\ UNCHANGED <<sheet, excluded_text, entry, pandas, now, df_raw, df, today, year_opt,
                 res, dist, lists_by_bucket, written, prev, runs>>

\* the cleaning block of either script: df_raw is rebound to the renamed
\* frame before the two columns are selected from it
Clean ==
  /\ pc = "clean"
  /\ df_raw' = RenameStrip(df_raw)
  /\ IF SelectRaises(RenameStrip(df_raw))
     THEN /\ error' = "KeyError"
          /\ pc' = "crashed"
          /\ UNCHANGED <<df, today, trace>>
     ELSE /\ today' = Normalize(now)
          /\ df' = CleanFrame(df_raw, ExcludedList(excluded_text), Normalize(now),
                          pandas)
          /\ error' = error
          /\ pc' = "year"
          /\ trace' = Append(trace, "clean")
  /\ UNCHANGED <<sheet, excluded_text, entry, pandas, now, year_opt,
                 res, dist, lists_by_bucket, written, prev, runs>>

\* app.py: available_years, default_year, the selectbox;
\* generate_report.py: current_year = today.year
SelectYear ==
  /\ pc = "year"
  /\ IF entry = "app"
     THEN IF AvailableYears(df) = {}
          THEN /\ error' = "IndexError"
               /\ pc' = "crashed"
               /\ UNCHANGED <<year_opt, trace>>
          ELSE /\ \E y \in AvailableYears(df) : year_opt' = y
               /\ error' = error
               /\ pc' = "classify"
               /\ trace' = Append(trace, "year")
     ELSE /\ year_opt' = today.y
          /\ error' = error
          /\ pc' = "classify"
          /\ trace' = Append(trace, "year")
  /\ UNCHANGED <<sheet, excluded_text, entry, pandas, now, df_raw, df, today,
                 res, dist, lists_by_bucket, written, prev, runs>>

\* first_purchase, new_monthly, total_monthly and the merge
Classify ==
  /\ pc = "classify"
  /\ res' = Merge(entry, df, year_opt, today)
  /\ pc' = "bucket"
  /\ trace' = Append(trace, "classify")
  /\ UNCHANGED <<sheet, excluded_text, entry, pandas, now, error, df_raw, df, today,
                 year_opt, dist, lists_by_bucket, written, prev, runs>>

\* tx_per_customer, to_bucket and dist
Bucket ==
  /\ pc = "bucket"
  /\ dist' = Dist(df, year_opt)
  /\ pc' = "render"
  /\ trace' = Append(trace, "bucket")
  /\ UNCHANGED <<sheet, excluded_text, entry, pandas, now, error, df_raw, df, today,
                 year_opt, res, lists_by_bucket, written, prev, runs>>

\* app.py: the charts and the listing.  generate_report.py: the html f-string
\* reads table_html, a name the script never binds, so the script raises
\* NameError before out_path.write_text
Render ==
  /\ pc = "render"
  /\ IF entry = "app"
     THEN /\ lists_by_bucket' = ListsByBucket(df, year_opt)
          /\ pc' = "done"
          /\ trace' = Append(trace, "render")
          /\ error' = error
     ELSE /\ error' = "NameError"
          /\ pc' = "crashed"
          /\ UNCHANGED <<lists_by_bucket, trace>>
  /\ written' = written
  /\ UNCHANGED <<sheet, excluded_text, entry, pandas, now, df_raw, df, today,
                 year_opt, res, dist, prev, runs>>

\* the next run of the same script on the same sheet (the meta refresh of
\* app.py, the next scheduled report), at the same or a later moment
Rerun ==
  /\ pc \in Terminal
  /\ runs < MaxRuns
  /\ \E c \in RerunClocks : Key(c) >= Key(now) /\ now' = c
  /\ prev' = IF \E i \in 1..Len(trace) : trace[i] = "bucket"
             THEN [valid |-> TRUE, df |-> df, year |-> year_opt,
                   today |-> today, res |-> res, dist |-> dist,
                   lists |-> lists_by_bucket]
             ELSE NoPrev
  /\ runs' = runs + 1
  /\ pc' = "load"
  /\ trace' = <<>>
  /\ error' = "none"
  /\ df_raw' = EmptyFrame
  /\ df' = <<>>
  /\ today' = NaT
  /\ year_opt' = 0
  /\ res' = <<>>
  /\ dist' = <<>>
  /\ lists_by_bucket' = <<>>
  /\ UNCHANGED <<sheet, excluded_text, entry, pandas, written>>

Next ==
  \/ Load
  \/ CheckColumns
  \/ Clean
  \/ SelectYear
  \/ Classify
  \/ Bucket
  \/ Render

NextRerun == Next \/ Rerun

\* one run on well-formed sheets of up to MaxRows rows
Spec == InitAgg /\ [][Next]_vars

\* one run on sheets with defective rows and headers
SpecClean == InitClean /\ [][Next]_vars

\* successive runs of one process
SpecRerun == InitRerun /\ [][NextRerun]_vars

(* ------------------------- vocabulary of the claims ------------------- *)
Did(stage) == \E i \in 1..Len(trace) : trace[i] = stage

\* the calendar day of a timestamp
DayKey(ts) == (ts.y * 100 + ts.m) * 100 + ts.d

\* the customers with a cleaned record in month m of year y
ActiveIn(y, m) ==
  {df[i].cust : i \in {j \in 1..Len(df) : df[j].date.y = y /\ df[j].date.m = m}}

\* the customers active in month m of year y with no cleaned record in any
\* earlier month of any year
FirstSeenIn(y, m) ==
  {c \in ActiveIn(y, m) :
     \A i \in 1..Len(df) :
       df[i].cust = c => df[i].date.y * 100 + df[i].date.m >= y * 100 + m}

\* the number of cleaned records of customer c in year y
RowsOf(c, y) == Cardinality({i \in 1..Len(df) : df[i].cust = c /\ df[i].date.y = y})

ActiveInYear(y) == {df[i].cust : i \in {j \in 1..Len(df) : df[j].date.y = y}}

\* the bucket the specification names for a count n >= 1
BucketOf(n) ==
  CASE n = 1 -> <<"1">> [] n = 2 -> <<"2">> [] n = 3 -> <<"3">>
    [] n = 4 -> <<"4">> [] OTHER -> <<"5", "+">>

RECURSIVE SumCustomers(_)
SumCustomers(d) ==
  IF d = <<>> THEN 0 ELSE Head(d).n_customers + SumCustomers(Tail(d))

NormalizedColumns == {Strip(c) : c \in df_raw.columns}

BothColumnsPresent ==
  DATE_COL \in NormalizedColumns /\ CUSTOMER_COL \in NormalizedColumns

(* --------------------------------- C1 --------------------------------- *)
\* C1: after cleaning, every kept record has a parsed date whose day is not
\* after today, a non-empty trimmed customer id that is not excluded; and
\* every loaded row with these three properties is kept.
C1_CleanerInvariant ==
  Did("clean") =>
    LET excl == Range(ExcludedList(excluded_text))
        raw == RenameStrip(df_raw).data
        good(d, c) == /\ d # NaT
                      /\ DayKey(d) <= DayKey(today)
                      /\ c # <<>>
                      /\ c \notin excl
    IN /\ \A i \in 1..Len(df) : good(df[i].date, df[i].cust)
       /\ \A i \in 1..Len(raw) :
            LET d == ParseDate([k \in 1..Len(raw) |-> raw[k][DATE_COL]],
                               pandas)[i]
                c == Strip(raw[i][CUSTOMER_COL])
            IN good(d, c) =>
                 \E j \in 1..Len(df) : df[j].date = d /\ df[j].cust = c

(* --------------------------------- C2 --------------------------------- *)
\* C2: a run whose input lacks a configured column ends with an error before
\* cleaning, and a run whose input holds both columns (names trimmed) raises
\* no column error and reaches cleaning.
C2_ColumnCheck ==
  Did("load") =>
    /\ ~BothColumnsPresent =>
         /\ ~Did("clean")
         /\ pc \in Terminal => error \in {"config", "KeyError"}
    /\ BothColumnsPresent =>
         /\ error \notin {"config", "KeyError"}
         /\ pc \in Terminal => Did("clean")

(* --------------------------------- C3 --------------------------------- *)
\* C3: newCustomers of month m counts exactly the customers whose earliest
\* cleaned record over all years lies in month m of the selected year, and
\* totalUniqueCustomers counts every customer active in that month, so a
\* customer first seen in an earlier year is in the total and never new.
C3_GlobalFirstPurchase ==
  Did("classify") =>
    \A m \in 1..12 :
      IF m \in DOMAIN res
      THEN /\ res[m].new_customers = Cardinality(FirstSeenIn(year_opt, m))
           /\ res[m].total_unique_customers = Cardinality(ActiveIn(year_opt, m))
      ELSE FirstSeenIn(year_opt, m) = {}

C3_Witness ==
  /\ Did("classify")
  /\ year_opt = 2024
  /\ \E i, j \in 1..Len(df) :
       /\ df[i].cust = df[j].cust
       /\ df[i].date.y = 2023
       /\ df[j].date.y = 2024
       /\ res[df[j].date.m].total_unique_customers = 1
       /\ res[df[j].date.m].new_customers = 0

(* --------------------------------- C4 --------------------------------- *)
\* C4: the monthly table has one row per month 1..12 for a past year and
\* 1..current month for the current year, in ascending order, and a month
\* without activity has both counts 0.
C4_MonthRange ==
  Did("classify") =>
    /\ year_opt <= today.y
    /\ year_opt < today.y => Len(res) = 12
    /\ year_opt = today.y => Len(res) = today.m
    /\ \A i \in 1..Len(res) :
         /\ res[i].month = i
         /\ ActiveIn(year_opt, i) = {} =>
              res[i].total_unique_customers = 0 /\ res[i].new_customers = 0

C4_Witness ==
  /\ Did("classify")
  /\ year_opt = today.y
  /\ today.m = 2
  /\ Len(res) = 2
  /\ res[1].total_unique_customers > 0
  /\ res[2].total_unique_customers = 0
  /\ res[2].new_customers = 0

(* --------------------------------- C5 --------------------------------- *)
\* C5: a run whose sheet has no rows, or whose cleaned set is empty or has no
\* record of the selected year, still classifies and buckets: every month of
\* the range with three zero counts, and an empty distribution and listing.
C5_EmptyYearNoFailure ==
  ( /\ pc \in Terminal
    /\ \/ sheet.rows = <<>>
       \/ Did("clean") /\ df = <<>>
       \/ Did("year") /\ ActiveInYear(year_opt) = {} )
  => /\ Did("bucket")
     /\ Len(res) = MaxMonth(entry, year_opt, today)
     /\ \A i \in 1..Len(res) :
          /\ res[i].total_unique_customers = 0
          /\ res[i].new_customers = 0
          /\ res[i].returning_customers = 0
     /\ dist = <<>>
     /\ lists_by_bucket = <<>>

(* --------------------------------- C6 --------------------------------- *)
\* C6: the distribution holds, in the order 1,2,3,4,5+, exactly the buckets
\* that some customer of the year falls in by its number of records, each
\* with the number of such customers; the counts sum to the number of
\* distinct customers of the year.
C6_BucketCoverage ==
  Did("bucket") =>
    LET custs == ActiveInYear(year_opt)
        members(b) == {c \in custs : BucketOf(RowsOf(c, year_opt)) = b}
    IN /\ \A c \in custs :
            Cardinality({i \in 1..Len(dist) :
                           dist[i].bucket = BucketOf(RowsOf(c, year_opt))}) = 1
       /\ \A i \in 1..Len(dist) :
            /\ dist[i].n_customers = Cardinality(members(dist[i].bucket))
            /\ dist[i].n_customers >= 1
       /\ SumCustomers(dist) = Cardinality(custs)
       /\ \A i, j \in 1..Len(dist) :
            i < j => OrderIndex(dist[i].bucket) < OrderIndex(dist[j].bucket)

C6_Witness ==
  /\ Did("bucket")
  /\ \E c \in ActiveInYear(year_opt) : RowsOf(c, year_opt) >= 5
  /\ \E c \in ActiveInYear(year_opt) : RowsOf(c, year_opt) = 1
  /\ Len(dist) = 2
  /\ dist[1].bucket = <<"1">>
  /\ dist[2].bucket = <<"5", "+">>

(* --------------------------------- C7 --------------------------------- *)
\* C7: a customer counts once in a month's totalUniqueCustomers however many
\* records or days it has there, while every one of its records of the year
\* counts toward the bucket it is placed in.
C7_DayDedup ==
  Did("bucket") =>
    /\ \A m \in DOMAIN res :
         res[m].total_unique_customers = Cardinality(ActiveIn(year_opt, m))
    /\ \A b \in Range(order) :
         LET k == Cardinality({c \in ActiveInYear(year_opt) :
                                 BucketOf(RowsOf(c, year_opt)) = b})
         IN \/ k = 0 /\ \A i \in 1..Len(dist) : dist[i].bucket # b
            \/ k > 0 /\ \E i \in 1..Len(dist) :
                          dist[i].bucket = b /\ dist[i].n_customers = k

C7_Witness ==
  /\ Did("bucket")
  /\ \E i, j \in 1..Len(df) :
       /\ i # j
       /\ df[i].cust = df[j].cust
       /\ df[i].date.y = year_opt
       /\ DayKey(df[i].date) = DayKey(df[j].date)
       /\ RowsOf(df[i].cust, year_opt) = 2
       /\ res[df[i].date.m].total_unique_customers = 1
       /\ dist = << [bucket |-> <<"2">>, bucket_label |-> "2 bar",
                     n_customers |-> 1, order |-> 1] >>

(* --------------------------------- C8 --------------------------------- *)
\* C8 as claimed: two runs on the same cleaned set and year give the same
\* monthly table, distribution and listing, whenever each is executed.
C8_SameOutputAnyMoment ==
  ( /\ prev.valid
    /\ pc \in Terminal
    /\ Did("bucket")
    /\ prev.df = df
    /\ prev.year = year_opt )
  => /\ prev.res = res
     /\ prev.dist = dist
     /\ prev.lists = lists_by_bucket

\* C8 as amended: two runs on the same cleaned set and year that read the
\* clock in the same month of the same year give the same monthly table,
\* distribution and listing.
C8_SameOutputSameMonth ==
  ( /\ prev.valid
    /\ pc \in Terminal
    /\ Did("bucket")
    /\ prev.df = df
    /\ prev.year = year_opt
    /\ prev.today.y = today.y
    /\ prev.today.m = today.m )
  => /\ prev.res = res
     /\ prev.dist = dist
     /\ prev.lists = lists_by_bucket

C8_Witness ==
  /\ prev.valid
  /\ pc \in Terminal
  /\ Did("bucket")
  /\ df # <<>>
  /\ prev.df = df
  /\ prev.year = year_opt
  /\ prev.today.y = today.y
  /\ prev.today.m = today.m
  /\ prev.today.d # today.d
  /\ prev.res = res
  /\ Len(res) > 0

(* --------------------------------- C9 --------------------------------- *)
\* C9: a run of generate_report.py on an input with both columns goes through
\* load, clean, classify, bucket, render and ends with the report written.
C9_ReportWritten ==
  (entry = "report" /\ pc \in Terminal /\ BothColumnsPresent)
  => /\ pc = "done"
     /\ written
     /\ SelectSeq(trace, LAMBDA st : st # "year")
          = <<"load", "clean", "classify", "bucket", "render">>

(* --------------------------------- C10 -------------------------------- *)
\* C10: in every monthly row 0 <= newCustomers <= totalUniqueCustomers and
\* returningCustomers is their exact difference, so the clamp changes nothing.
C10_NewWithinTotal ==
  Did("classify") =>
    \A i \in 1..Len(res) :
      /\ 0 <= res[i].new_customers
      /\ res[i].new_customers <= res[i].total_unique_customers
      /\ res[i].returning_customers
           = res[i].total_unique_customers - res[i].new_customers
      /\ res[i].returning_customers >= 0

C10_Witness ==
  /\ Did("classify")
  /\ \E i \in 1..Len(res) :
       /\ res[i].new_customers = 1
       /\ res[i].total_unique_customers = 2
       /\ res[i].returning_customers = 1

=============================================================================
